---- MODULE Spec2Model ----
(***************************************************************************)
(* Model of the planning engine of backend_planning_engine.py: goal        *)
(* analysis, task decomposition, tool routing, plan assembly and the       *)
(* dependency-driven execution loop (PlanningEngine.execute_plan and       *)
(* PlanningEngine.execute_task).                                           *)
(*                                                                         *)
(* Strings the code inspects (the goal text) are sequences of one          *)
(* character strings, so that lower(), split() and the substring test `in` *)
(* are computed as Python computes them.  Money is counted in integer      *)
(* cents.  uuid4 identifiers are drawn from a counter: they are fresh and  *)
(* pairwise different.  None is the record PyNone for mappings and the     *)
(* string "None" for strings.                                              *)
(***************************************************************************)
EXTENDS Integers, Sequences, FiniteSets, TLC

VARIABLES
    goal,             \* the goal text handed to the planning calls
    analysis,         \* result of analyze_goal, PyNone before the call
    tasks,            \* the task list: decompose_tasks' result / plan.tasks
    tool_mapping,     \* plan.tool_mapping: task id -> tool name
    estimated_cost,   \* plan.estimated_cost in cents
    stage,            \* how far the planning calls have got
    pc,               \* position of the coroutine execute_plan
    completed_tasks,  \* execute_plan's dict, as its keys in insertion order
    ready_tasks,      \* indices (into tasks) of the current iteration's batch
    co,               \* per task: position of its execute_task coroutine
    returned,         \* one record per finished run of execute_plan
    executions,       \* per task: number of "Executing task" log lines
    saves,            \* per task: the statuses _save_task was called with
    error_log,        \* per task: the messages of its "Task ... failed" log lines
    saved_in_run      \* the tasks with a "Saving task" log line since the last
                      \* "Starting execution of plan" line

vars == <<goal, analysis, tasks, tool_mapping, estimated_cost, stage, pc,
          completed_tasks, ready_tasks, co, returned, executions, saves,
          error_log, saved_in_run>>

planVars == <<goal, analysis, tool_mapping, estimated_cost, stage>>
runVars  == <<pc, completed_tasks, ready_tasks, co, returned, executions, saves,
             error_log, saved_in_run>>

-----------------------------------------------------------------------------
(* Bounds of the model *)

\* longest goal text, in words
MaxWords == 2
\* largest hand-built plan, in tasks
MaxTasks == 3
\* number of execute_plan runs on one plan
MaxRuns == 2
\* whole seconds of wall-clock time a call of tool.execute takes
ElapsedSeconds == 1
\* in a run over a created plan: the tool calls that raise, at most
MaxFailures == 2
\* in a run over a created plan: the tool calls suspended at a time, at most
MaxSuspended == 2

-----------------------------------------------------------------------------
(* Python values *)

PyNone == [py |-> "None"]

Range(s) == {s[i] : i \in 1..Len(s)}

\* TaskStatus
PENDING == "pending"
IN_PROGRESS == "in_progress"
COMPLETED == "completed"
FAILED == "failed"
TaskStatus == {PENDING, IN_PROGRESS, COMPLETED, FAILED}
Terminal == {COMPLETED, FAILED}

\* TaskType
RESEARCH == "research"
SCRIPT_GENERATION == "script_generation"
TTS_GENERATION == "tts_generation"
THUMBNAIL_GENERATION == "thumbnail_generation"
SEO_OPTIMIZATION == "seo_optimization"
VIDEO_UPLOAD == "video_upload"
TaskType == {RESEARCH, SCRIPT_GENERATION, TTS_GENERATION, THUMBNAIL_GENERATION,
             SEO_OPTIMIZATION, VIDEO_UPLOAD}

-----------------------------------------------------------------------------
(* Text *)

Chars(w) ==
    CASE w = "Grow"     -> <<"G", "r", "o", "w">>
      [] w = "tech"     -> <<"t", "e", "c", "h">>
      [] w = "Series"   -> <<"S", "e", "r", "i", "e", "s">>
      [] w = "multiple" -> <<"m", "u", "l", "t", "i", "p", "l", "e">>
      [] w = "BATCH"    -> <<"B", "A", "T", "C", "H">>
      [] w = "rebrand"  -> <<"r", "e", "b", "r", "a", "n", "d">>
      [] w = "series"   -> <<"s", "e", "r", "i", "e", "s">>
      [] w = "batch"    -> <<"b", "a", "t", "c", "h">>
      [] w = "earn"     -> <<"e", "a", "r", "n">>
      [] w = "money"    -> <<"m", "o", "n", "e", "y">>
      [] w = "revenue"  -> <<"r", "e", "v", "e", "n", "u", "e">>
      [] w = "brand"    -> <<"b", "r", "a", "n", "d">>
      [] w = "growth"   -> <<"g", "r", "o", "w", "t", "h">>
      [] w = "teach"    -> <<"t", "e", "a", "c", "h">>
      [] w = "learn"    -> <<"l", "e", "a", "r", "n">>
      [] w = "education" -> <<"e", "d", "u", "c", "a", "t", "i", "o", "n">>

\* the words goal texts are made of
Vocabulary == {"Grow", "tech", "Series", "multiple", "BATCH", "rebrand"}

RECURSIVE JoinWords(_)
JoinWords(ws) ==
    IF ws = <<>> THEN <<>>
    ELSE IF Len(ws) = 1 THEN Chars(ws[1])
    ELSE Chars(ws[1]) \o <<" ">> \o JoinWords(Tail(ws))

WordLists == UNION {[1..n -> Vocabulary] : n \in 0..MaxWords}

\* the goal texts: the empty text and up to MaxWords words separated by blanks
Goals == {JoinWords(ws) : ws \in WordLists}

\* str.lower() on the characters goal texts contain
LowerChar(c) ==
    CASE c = "G" -> "g"
      [] c = "S" -> "s"
      [] c = "B" -> "b"
      [] c = "A" -> "a"
      [] c = "T" -> "t"
      [] c = "C" -> "c"
      [] c = "H" -> "h"
      [] OTHER -> c

Lower(s) == [i \in 1..Len(s) |-> LowerChar(s[i])]

\* Python's `word in text` on strings: word occurs as a substring
Contains(text, word) ==
    \E i \in 1..(Len(text) - Len(word) + 1) :
        SubSeq(text, i, i + Len(word) - 1) = word

AnyWordIn(text, words) == \E w \in words : Contains(Lower(text), Chars(w))

\* str.split(): the maximal runs of non-blank characters
RECURSIVE Split(_)
Split(s) ==
    IF s = <<>> THEN <<>>
    ELSE IF s[1] = " " THEN Split(Tail(s))
    ELSE LET blanks == {i \in 1..Len(s) : s[i] = " "}
             stop == IF blanks = {} THEN Len(s) + 1
                     ELSE CHOOSE i \in blanks : \A j \in blanks : i <= j
         IN <<SubSeq(s, 1, stop - 1)>> \o Split(SubSeq(s, stop, Len(s)))

-----------------------------------------------------------------------------
(* The tools: PlanningEngine.tools and the Tool subclasses *)

\* the task types self.tools has a key for
RoutedTypes == {RESEARCH, SCRIPT_GENERATION, TTS_GENERATION, THUMBNAIL_GENERATION,
                SEO_OPTIMIZATION}

\* Tool.name of self.tools[type]
ToolName(type) ==
    CASE type = RESEARCH             -> "research_tool"
      [] type = SCRIPT_GENERATION    -> "script_generation_tool"
      [] type = TTS_GENERATION       -> "tts_tool"
      [] type = THUMBNAIL_GENERATION -> "thumbnail_tool"
      [] type = SEO_OPTIMIZATION     -> "seo_tool"

\* Tool.cost_per_call of self.tools[type], in cents
CostPerCall(type) ==
    CASE type = RESEARCH             -> 0
      [] type = SCRIPT_GENERATION    -> 50
      [] type = TTS_GENERATION       -> 10
      [] type = THUMBNAIL_GENERATION -> 24
      [] type = SEO_OPTIMIZATION     -> 10

\* the cost Tool.execute returns beside its result, in cents
ExecuteCostMut(type) == CostPerCall(type)
ExecuteCost(type) ==
    IF type = THUMBNAIL_GENERATION THEN CostPerCall(type) * 3
    ELSE CostPerCall(type)

\* the result mapping Tool.execute returns, named by the tool that made it
ExecuteResultMut(type) == PyNone
ExecuteResult(type) == [result_of |-> ToolName(type)]

\* str(e) of the KeyError that self.tools[task.task_type] raises
KeyErrorMessage(type) ==
    CASE type = VIDEO_UPLOAD -> "<TaskType.VIDEO_UPLOAD: 'video_upload'>"

\* str(e) of an exception raised inside Tool.execute
CapabilityMessages == {"invalid input"}

-----------------------------------------------------------------------------
(* Goal analysis *)

_classify_objective(g) ==
    IF AnyWordIn(g, {"earn", "money", "revenue"}) THEN "monetization"
    ELSE IF AnyWordIn(g, {"brand", "growth"}) THEN "branding"
    ELSE IF AnyWordIn(g, {"teach", "learn", "education"}) THEN "education"
    ELSE "entertainment"

_determine_scope(g) ==
    IF AnyWordIn(g, {"series", "multiple", "batch"}) THEN 10 ELSE 4

\* the project context the request boundary passes in
ProjectContext == [project_id |-> "p1", niche |-> "tech"]

\* analyze_goal's result; project_id and niche are absent from it (get gives None)
analyze_goal(g) ==
    [objective_type |-> _classify_objective(g),
     scope          |-> _determine_scope(g),
     project_id     |-> "None",
     niche          |-> "None"]

-----------------------------------------------------------------------------
(* Task decomposition *)

\* list(range(a, b))
PyRange(a, b) == [k \in 1..(b - a) |-> a + k - 1]

\* the k-th identifier str(uuid.uuid4()) hands out
Uuid4(k) == k

\* Task(...) with the dataclass defaults for the fields the caller leaves out
Task(id, project_id, task_type, input_data, dependencies, is_parallel) ==
    [id                     |-> id,
     project_id             |-> project_id,
     task_type              |-> task_type,
     status                 |-> PENDING,
     input_data             |-> input_data,
     output_data            |-> PyNone,
     tool_used              |-> "None",
     cost_usd               |-> 0,
     execution_time_seconds |-> 0,
     created_at             |-> "None",
     completed_at           |-> "None",
     dependencies           |-> dependencies,
     is_parallel            |-> is_parallel]

\* f"Video {i+1}: {goal}"
VideoTitle(i, g) == <<"Video", i + 1, g>>

\* goal.split()[0] raises IndexError when the goal has no word
DecomposeRaises(g) == Split(g) = <<>>

\* 0-based index, into the list built so far, of the task a TTS task of loop
\* index i depends on: tasks[i]
TTSDependencyIndexMut(i) == i - 1
TTSDependencyIndex(i) == i

\* the same for a thumbnail and for an SEO task: tasks[1+i]
ThumbnailDependencyIndex(i) == 1 + i
SEODependencyIndex(i) == 1 + i

\* dependencies=[t.id]: the list holding the id of the task depended on
DependencyListMut(t) == <<t.id - 1>>
DependencyList(t) == <<t.id>>

\* is_parallel of the tasks the four loops build
LoopIsParallelMut == FALSE
LoopIsParallel == TRUE

decompose_tasks(g, a) ==
    LET task_1 == Task(Uuid4(1), a.project_id, RESEARCH,
                       [niche |-> a.niche, keyword |-> Split(g)[1]],
                       <<>>, FALSE)
        l1 == <<task_1>>
        \* the task built for loop value i as the n-th task of the list
        script(i, n) == Task(Uuid4(n), a.project_id, SCRIPT_GENERATION,
                             [title |-> VideoTitle(i, g), keywords |-> <<>>,
                              tone |-> "professional", duration_minutes |-> 5],
                             DependencyList(task_1), LoopIsParallel)
        l2 == l1 \o [k \in 1..Len(PyRange(0, 4)) |->
                       script(PyRange(0, 4)[k], Len(l1) + k)]
        tts(i, n) == Task(Uuid4(n), a.project_id, TTS_GENERATION,
                          [script |-> "placeholder", voice |-> "natural"],
                          DependencyList(l2[TTSDependencyIndex(i) + 1]), LoopIsParallel)
        l3 == l2 \o [k \in 1..Len(PyRange(1, 5)) |->
                       tts(PyRange(1, 5)[k], Len(l2) + k)]
        thumbnail(i, n) == Task(Uuid4(n), a.project_id, THUMBNAIL_GENERATION,
                                [title |-> VideoTitle(i, g), niche |-> a.niche],
                                DependencyList(l3[ThumbnailDependencyIndex(i) + 1]),
                                LoopIsParallel)
        l4 == l3 \o [k \in 1..Len(PyRange(0, 4)) |->
                       thumbnail(PyRange(0, 4)[k], Len(l3) + k)]
        seo(i, n) == Task(Uuid4(n), a.project_id, SEO_OPTIMIZATION,
                          [title |-> VideoTitle(i, g), primary_keyword |-> g,
                           secondary_keywords |-> <<>>],
                          DependencyList(l4[SEODependencyIndex(i) + 1]), LoopIsParallel)
    IN l4 \o [k \in 1..Len(PyRange(0, 4)) |-> seo(PyRange(0, 4)[k], Len(l4) + k)]

-----------------------------------------------------------------------------
(* Tool routing and plan assembly *)

\* route_tools raises KeyError for a task type without a tool
RouteRaises(ts) == \E i \in 1..Len(ts) : ts[i].task_type \notin RoutedTypes

route_toolsMut(ts) ==
    [id \in {ts[i].id : i \in 1..Len(ts)} |-> ToolName(ts[1].task_type)]
route_tools(ts) ==
    [id \in {ts[i].id : i \in 1..Len(ts)} |->
        ToolName(ts[CHOOSE i \in 1..Len(ts) : ts[i].id = id].task_type)]

\* the factor of create_execution_plan's sum: 3 for a thumbnail task, else 1
EstimateFactorMut(type) == 1
EstimateFactor(type) == IF type = THUMBNAIL_GENERATION THEN 3 ELSE 1

\* sum(self.tools[task.task_type].cost_per_call * factor for task in tasks)
RECURSIVE SumCost(_)
SumCost(ts) ==
    IF ts = <<>> THEN 0
    ELSE CostPerCall(ts[1].task_type) * EstimateFactor(ts[1].task_type)
         + SumCost(Tail(ts))

-----------------------------------------------------------------------------
(* State after construction *)

NoTasks == <<>>
NoMapping == [id \in {} |-> "None"]

\* nothing is running: no execute_plan call is active
IdleRun ==
    /\ pc = "idle"
    /\ completed_tasks = <<>>
    /\ ready_tasks = <<>>
    /\ returned = <<>>
    /\ saved_in_run = {}

\* a planning request: a goal text, nothing planned yet
InitPlanning ==
    /\ goal \in Goals
    /\ analysis = PyNone
    /\ tasks = NoTasks
    /\ tool_mapping = NoMapping
    /\ estimated_cost = 0
    /\ stage = "new"
    /\ IdleRun
    /\ co = <<>>
    /\ executions = <<>>
    /\ saves = <<>>
    /\ error_log = <<>>

\* the dependency lists a hand-built plan gives its i-th task: any list over the
\* ids of its neighbours in the plan; the ids 0 and n+1 belong to no task
NeighbourDeps(i, on) ==
    (IF "before" \in on THEN <<Uuid4(i - 1)>> ELSE <<>>)
    \o (IF "after" \in on THEN <<Uuid4(i + 1)>> ELSE <<>>)

\* the task types of a hand-built plan: every task has a tool, but for the one
\* at position `unrouted` (0: none), whose type has no entry in self.tools
GivenType(i, unrouted) == IF i = unrouted THEN VIDEO_UPLOAD ELSE RESEARCH

\* is_parallel in a hand-built plan: as in decompose_tasks, the tasks behind
\* some position are parallel and the tasks up to it are not
GivenIsParallel(i, sequential) == i > sequential

\* a plan built by hand: n pending tasks
GivenPlan(n, on, sequential, unrouted) ==
    [i \in 1..n |-> Task(Uuid4(i), "p1", GivenType(i, unrouted), [niche |-> "tech"],
                         NeighbourDeps(i, on[i]), GivenIsParallel(i, sequential))]

\* an ExecutionPlan built by hand, of up to MaxTasks tasks, and not yet run
Init ==
    /\ goal = <<>>
    /\ analysis = PyNone
    /\ \E n \in 0..MaxTasks :
          \E on \in [1..n -> SUBSET {"before", "after"}],
             sequential \in 0..n,
             unrouted \in 0..n :
                tasks = GivenPlan(n, on, sequential, unrouted)
    /\ tool_mapping = NoMapping
    /\ estimated_cost = 0
    /\ stage = "given"
    /\ IdleRun
    /\ co = [i \in 1..Len(tasks) |-> "idle"]
    /\ executions = [i \in 1..Len(tasks) |-> 0]
    /\ saves = [i \in 1..Len(tasks) |-> <<>>]
    /\ error_log = [i \in 1..Len(tasks) |-> <<>>]

-----------------------------------------------------------------------------
(* The planning calls *)

\* analyze_goal(goal, context)
AnalyzeGoal ==
    /\ stage = "new"
    /\ analysis' = analyze_goal(goal)
    /\ stage' = "analyzed"
    /\ UNCHANGED <<goal, tasks, tool_mapping, estimated_cost>>
    /\ UNCHANGED runVars

\* decompose_tasks(goal, analysis): the task list, or IndexError
DecomposeTasks ==
    /\ stage = "analyzed"
    /\ IF DecomposeRaises(goal)
         THEN /\ stage' = "error"
              /\ UNCHANGED tasks
         ELSE /\ stage' = "decomposed"
              /\ tasks' = decompose_tasks(goal, analysis)
    /\ UNCHANGED <<goal, analysis, tool_mapping, estimated_cost>>
    /\ UNCHANGED runVars

\* route_tools(tasks)
RouteTools ==
    /\ stage = "decomposed"
    /\ ~RouteRaises(tasks)
    /\ tool_mapping' = route_tools(tasks)
    /\ stage' = "routed"
    /\ UNCHANGED <<goal, analysis, tasks, estimated_cost>>
    /\ UNCHANGED runVars

\* create_execution_plan(goal, context): analysis, decomposition, routing, cost
CreateExecutionPlan ==
    /\ stage = "new"
    /\ LET a == [analyze_goal(goal) EXCEPT !.project_id = ProjectContext.project_id,
                                            !.niche = ProjectContext.niche]
       IN /\ analysis' = a
          /\ IF DecomposeRaises(goal)
               THEN /\ stage' = "error"
                    /\ UNCHANGED <<tasks, tool_mapping, estimated_cost, co,
                                   executions, saves, error_log>>
               ELSE LET ts == decompose_tasks(goal, a)
                    IN /\ tasks' = ts
                       /\ tool_mapping' = route_tools(ts)
                       /\ estimated_cost' = SumCost(ts)
                       /\ stage' = "planned"
                       /\ co' = [i \in 1..Len(ts) |-> "idle"]
                       /\ executions' = [i \in 1..Len(ts) |-> 0]
                       /\ saves' = [i \in 1..Len(ts) |-> <<>>]
                       /\ error_log' = [i \in 1..Len(ts) |-> <<>>]
    /\ UNCHANGED <<goal, pc, completed_tasks, ready_tasks, returned, saved_in_run>>

NextPlanning ==
    \/ AnalyzeGoal
    \/ DecomposeTasks
    \/ RouteTools
    \/ CreateExecutionPlan

SpecPlanning == InitPlanning /\ [][NextPlanning]_vars

-----------------------------------------------------------------------------
(* execute_plan and execute_task *)

Indices == 1..Len(tasks)

\* the ids of the plan's tasks
TaskIds == {tasks[i].id : i \in Indices}

\* task.dependencies or []
DepsOrEmpty(t) == t.dependencies

\* task.status == TaskStatus.PENDING
IsPendingMut(t) == t.status # IN_PROGRESS
IsPending(t) == t.status = PENDING

\* dep_id in completed_tasks
DepSatisfiedMut(dep, done, ts) ==
    \A j \in 1..Len(ts) : ts[j].id = dep => ts[j].status \in Terminal
DepSatisfied(dep, done, ts) == dep \in Range(done)

\* the list comprehension of execute_plan: the pending tasks, in plan order,
\* whose dependency ids are all keys of completed_tasks
ReadyTasksMut(ts, done) ==
    SelectSeq([i \in 1..Len(ts) |-> i], LAMBDA i : IsPending(ts[i]))
ReadyTasks(ts, done) ==
    SelectSeq([i \in 1..Len(ts) |-> i],
              LAMBDA i : /\ IsPending(ts[i])
                         /\ \A k \in 1..Len(DepsOrEmpty(ts[i])) :
                                DepSatisfied(DepsOrEmpty(ts[i])[k], done, ts))

\* the while test: len(completed_tasks) < len(plan.tasks)
WhileTestMut(done, ts) == Len(done) + 1 < Len(ts)
WhileTest(done, ts) == Len(done) < Len(ts)

\* any(task.is_parallel for task in ready_tasks)
AnyParallelMut(ts, ready) == \A k \in 1..Len(ready) : ts[ready[k]].is_parallel
AnyParallel(ts, ready) == \E k \in 1..Len(ready) : ts[ready[k]].is_parallel

\* completed_tasks[id] = task on a dict held as its keys in insertion order
DictSet(keys, id) == IF id \in Range(keys) THEN keys ELSE Append(keys, id)

RECURSIVE DictSetAll(_, _)
DictSetAll(keys, ids) ==
    IF ids = <<>> THEN keys
    ELSE DictSetAll(DictSet(keys, ids[1]), Tail(ids))

\* the ids of `results`, the tasks the batch returned, in list order: each of
\* them is entered into completed_tasks
ResultIdsMut(ts, ready) ==
    LET completed == SelectSeq(ready, LAMBDA i : ts[i].status = COMPLETED)
    IN [k \in 1..Len(completed) |-> ts[completed[k]].id]
ResultIds(ts, ready) == [k \in 1..Len(ready) |-> ts[ready[k]].id]

\* the status execute_task sets before the try block
StatusOnBeginMut == PENDING
StatusOnBegin == IN_PROGRESS

\* the status execute_task gives a task whose try block ran through / raised
StatusOnReturn == COMPLETED
StatusOnRaise == FAILED

\* task.output_data in the except branch
ErrorPayloadMut(message) == [error |-> "task failed"]
ErrorPayload(message) == [error |-> message]

\* the task as the try block and the finally block of execute_task leave it
\* when tool.execute returned
TaskOnReturnMut(t) ==
    [t EXCEPT !.input_data = ExecuteResult(t.task_type),
              !.tool_used = ToolName(t.task_type),
              !.cost_usd = ExecuteCost(t.task_type),
              !.status = StatusOnReturn,
              !.completed_at = "set",
              !.execution_time_seconds = ElapsedSeconds]
TaskOnReturn(t) ==
    [t EXCEPT !.output_data = ExecuteResult(t.task_type),
              !.tool_used = ToolName(t.task_type),
              !.cost_usd = ExecuteCost(t.task_type),
              !.status = StatusOnReturn,
              !.completed_at = "set",
              !.execution_time_seconds = ElapsedSeconds]

\* the task as the except branch and the finally block leave it when the try
\* block raised an exception with str(e) = message
TaskOnRaise(t, message) ==
    [t EXCEPT !.status = StatusOnRaise,
              !.output_data = ErrorPayload(message),
              !.completed_at = "set",
              !.execution_time_seconds = ElapsedSeconds]

\* _save_task(task), the last statement of execute_task on either path: the
\* status the task is saved with is added to the task's save log
_save_taskMut(log, t) == IF t.status = FAILED THEN log ELSE Append(log, t.status)
_save_task(log, t) == Append(log, t.status)

\* gather, and the list of awaits, hand over `results` when every execute_task
\* of the batch has returned
AllReturnedMut(ready, c) == \E k \in 1..Len(ready) : c[ready[k]] = "done"
AllReturned(ready, c) == \A k \in 1..Len(ready) : c[ready[k]] = "done"

\* list(completed_tasks.values()): the tasks of the dict in insertion order
ReturnValueMut(done) == <<>>
ReturnValue(done) == done

\* a call of execute_plan(plan) on a plan that no run is active on
ExecutePlan ==
    /\ stage \in {"given", "planned"}
    /\ pc = "idle"
    /\ Len(returned) < MaxRuns
    /\ completed_tasks' = <<>>
    /\ saved_in_run' = {}
    /\ pc' = "while"
    /\ UNCHANGED <<tasks, ready_tasks, co, returned, executions, saves, error_log>>
    /\ UNCHANGED planVars

\* the while test fails: return the values of completed_tasks
ReturnCompleted ==
    /\ pc = "while"
    /\ ~WhileTest(completed_tasks, tasks)
    /\ returned' = Append(returned, [tasks |-> ReturnValue(completed_tasks),
                                     stalled |-> FALSE])
    /\ pc' = "idle"
    /\ UNCHANGED <<tasks, completed_tasks, ready_tasks, co, executions, saves,
                   error_log, saved_in_run>>
    /\ UNCHANGED planVars

\* no ready task: the warning is logged, the loop is left, the dict returned
Stalled ==
    /\ pc = "while"
    /\ WhileTest(completed_tasks, tasks)
    /\ ReadyTasks(tasks, completed_tasks) = <<>>
    /\ returned' = Append(returned, [tasks |-> ReturnValue(completed_tasks),
                                     stalled |-> TRUE])
    /\ pc' = "idle"
    /\ UNCHANGED <<tasks, completed_tasks, ready_tasks, co, executions, saves,
                   error_log, saved_in_run>>
    /\ UNCHANGED planVars

\* some ready task is parallel: asyncio.gather over execute_task of every ready
\* task, which schedules the coroutines in list order
DispatchGather ==
    /\ pc = "while"
    /\ WhileTest(completed_tasks, tasks)
    /\ LET ready == ReadyTasks(tasks, completed_tasks)
       IN /\ ready # <<>>
          /\ AnyParallel(tasks, ready)
          /\ ready_tasks' = ready
          /\ co' = [i \in Indices |-> IF i \in Range(ready) THEN "queued" ELSE co[i]]
    /\ pc' = "gather"
    /\ UNCHANGED <<tasks, completed_tasks, returned, executions, saves, error_log,
                   saved_in_run>>
    /\ UNCHANGED planVars

\* no ready task is parallel: execute_task is awaited for one task after the other
DispatchSequential ==
    /\ pc = "while"
    /\ WhileTest(completed_tasks, tasks)
    /\ LET ready == ReadyTasks(tasks, completed_tasks)
       IN /\ ready # <<>>
          /\ ~AnyParallel(tasks, ready)
          /\ ready_tasks' = ready
          /\ co' = [i \in Indices |-> IF i \in Range(ready) THEN "queued" ELSE co[i]]
    /\ pc' = "sequential"
    /\ UNCHANGED <<tasks, completed_tasks, returned, executions, saves, error_log,
                   saved_in_run>>
    /\ UNCHANGED planVars

\* the coroutine that runs next: the first one of the batch not yet started,
\* once the one running has reached an await (gather) or its end (sequential)
NextToStart(i) ==
    /\ co[i] = "queued"
    /\ \A k \in 1..Len(ready_tasks) :
          co[ready_tasks[k]] = "queued" =>
              \E j \in 1..k : ready_tasks[j] = i
    /\ \A j \in Indices : co[j] # "calling"
    /\ pc = "sequential" => \A j \in Indices : co[j] # "suspended"

\* under gather a suspended coroutine is resumed only after every coroutine that
\* gather scheduled has had its first step; awaited alone it is resumed at once
MayResume(i) ==
    /\ co[i] = "suspended"
    /\ pc = "gather" => \A j \in Indices : co[j] \notin {"queued", "calling"}

\* execute_task up to the call of tool.execute: the log line and the status
BeginTask(i) ==
    /\ pc \in {"gather", "sequential"}
    /\ NextToStart(i)
    /\ tasks' = [tasks EXCEPT ![i].status = StatusOnBegin]
    /\ executions' = [executions EXCEPT ![i] = @ + 1]
    /\ co' = [co EXCEPT ![i] = "calling"]
    /\ UNCHANGED <<pc, completed_tasks, ready_tasks, returned, saves, error_log,
                   saved_in_run>>
    /\ UNCHANGED planVars

\* tool.execute reaches an await that is not ready: the coroutine is suspended
ToolSuspends(i) ==
    /\ co[i] = "calling"
    /\ tasks[i].task_type \in RoutedTypes
    /\ stage = "planned" =>
          Cardinality({j \in Indices : co[j] = "suspended"}) < MaxSuspended
    /\ co' = [co EXCEPT ![i] = "suspended"]
    /\ UNCHANGED <<tasks, pc, completed_tasks, ready_tasks, returned, executions,
                   saves, error_log, saved_in_run>>
    /\ UNCHANGED planVars

\* tool.execute returns (output_data, cost): the rest of the try block, the
\* finally block and _save_task
ToolReturns(i) ==
    /\ co[i] = "calling" \/ MayResume(i)
    /\ tasks[i].task_type \in RoutedTypes
    /\ tasks' = [tasks EXCEPT ![i] = TaskOnReturn(tasks[i])]
    /\ saves' = [saves EXCEPT ![i] = _save_task(@, TaskOnReturn(tasks[i]))]
    /\ saved_in_run' = saved_in_run \cup {i}
    /\ co' = [co EXCEPT ![i] = "done"]
    /\ UNCHANGED <<pc, completed_tasks, ready_tasks, returned, executions, error_log>>
    /\ UNCHANGED planVars

\* the messages the try block of execute_task can raise for a task: the KeyError
\* of the tool lookup, or whatever its tool raises
RaisedMessages(t) ==
    IF t.task_type \in RoutedTypes THEN CapabilityMessages
    ELSE {KeyErrorMessage(t.task_type)}

\* the try block raises: the except branch, the finally block and _save_task
TryRaises(i) ==
    /\ co[i] = "calling" \/ MayResume(i)
    /\ stage = "planned" =>
          Cardinality({j \in Indices : tasks[j].status = FAILED}) < MaxFailures
    /\ \E message \in RaisedMessages(tasks[i]) :
          /\ error_log' = [error_log EXCEPT ![i] = Append(@, message)]
          /\ tasks' = [tasks EXCEPT ![i] = TaskOnRaise(tasks[i], message)]
          /\ saves' = [saves EXCEPT ![i] = _save_task(@, TaskOnRaise(tasks[i], message))]
    /\ saved_in_run' = saved_in_run \cup {i}
    /\ co' = [co EXCEPT ![i] = "done"]
    /\ UNCHANGED <<pc, completed_tasks, ready_tasks, returned, executions>>
    /\ UNCHANGED planVars

\* every execute_task of the batch has returned: the results are entered into
\* completed_tasks in list order and the loop goes back to its test
CollectResults ==
    /\ pc \in {"gather", "sequential"}
    /\ AllReturned(ready_tasks, co)
    /\ completed_tasks' = DictSetAll(completed_tasks, ResultIds(tasks, ready_tasks))
    /\ co' = [i \in Indices |-> "idle"]
    /\ ready_tasks' = <<>>
    /\ pc' = "while"
    /\ UNCHANGED <<tasks, returned, executions, saves, error_log, saved_in_run>>
    /\ UNCHANGED planVars

Next ==
    \/ ExecutePlan
    \/ ReturnCompleted
    \/ Stalled
    \/ DispatchGather
    \/ DispatchSequential
    \/ \E i \in Indices : BeginTask(i)
    \/ \E i \in Indices : ToolSuspends(i)
    \/ \E i \in Indices : ToolReturns(i)
    \/ \E i \in Indices : TryRaises(i)
    \/ CollectResults

Spec == Init /\ [][Next]_vars

\* what a started run does by itself: the event loop runs every coroutine that
\* can run, and every call of tool.execute returns or raises
RunStep ==
    \/ ReturnCompleted
    \/ Stalled
    \/ DispatchGather
    \/ DispatchSequential
    \/ \E i \in Indices : BeginTask(i)
    \/ \E i \in Indices : ToolReturns(i)
    \/ \E i \in Indices : TryRaises(i)
    \/ CollectResults

FairSpec == Spec /\ WF_vars(RunStep)

\* the goal texts of the requests whose plan is created and then run
RunGoals == {JoinWords(<<"Grow", "tech">>)}

\* a request: the plan is created by create_execution_plan and then executed
InitRun ==
    /\ InitPlanning
    /\ goal \in RunGoals

NextRun ==
    \/ CreateExecutionPlan
    \/ Next

SpecRun == InitRun /\ [][NextRun]_vars

-----------------------------------------------------------------------------
(* Properties of the task decomposition, checked under SpecPlanning *)

\* the task list is decompose_tasks' result
Decomposed == stage \in {"decomposed", "routed", "planned"}

\* the number of tasks of a type in the task list
CountOfType(type) == Cardinality({i \in Indices : tasks[i].task_type = type})

\* C1: for every goal and the scope N analyze_goal returns for it (4 or 10),
\* decompose_tasks returns exactly 1 + 4N tasks: 1 research task and N script,
\* N TTS, N thumbnail and N SEO tasks.
C1_DecomposeCountsFollowScope ==
    Decomposed =>
        /\ analysis.scope \in {4, 10}
        /\ Len(tasks) = 1 + 4 * analysis.scope
        /\ CountOfType(RESEARCH) = 1
        /\ \A type \in {SCRIPT_GENERATION, TTS_GENERATION, THUMBNAIL_GENERATION,
                        SEO_OPTIMIZATION} : CountOfType(type) = analysis.scope

\* the number of videos the returned list is built for
Videos == CountOfType(SCRIPT_GENERATION)

-----------------------------------------------------------------------------
(* Properties of execute_plan, checked under Spec and FairSpec *)

\* positions a plan of the model can have
Positions == 1..MaxTasks

\* the ids the i-th task depends on
Deps(i) == Range(DepsOrEmpty(tasks[i]))

\* the i-th task depends on the j-th
DependsOn(i, j) == tasks[j].id \in Deps(i)

\* the i-th task names a dependency id that no task of the plan has
HasUnknownDependency(i) == \E d \in Deps(i) : d \notin TaskIds

\* the tasks reachable from the tasks of S along at most k dependency edges
RECURSIVE Upstream(_, _)
Upstream(S, k) ==
    IF k = 0 THEN S
    ELSE Upstream(S \cup {j \in Indices : \E i \in S : DependsOn(i, j)}, k - 1)

\* the i-th task lies on a dependency cycle
OnCycle(i) ==
    i \in Upstream({j \in Indices : DependsOn(i, j)}, Len(tasks))

\* the plan has a task with an unknown dependency id or a dependency cycle
StructuralProblem == \E i \in Indices : HasUnknownDependency(i) \/ OnCycle(i)

\* every dependency of the i-th task is a task of the plan in a terminal status
DependenciesTerminal(i) ==
    \A d \in Deps(i) : \E j \in Indices : tasks[j].id = d /\ tasks[j].status \in Terminal

\* the j-th task was dispatched by the run that is active or was the last
InThisRun(j) == j \in Range(ready_tasks) \/ tasks[j].id \in Range(completed_tasks)

\* C2: a task goes from pending to in_progress only when every dependency id
\* of it that is a task's id belongs to a completed or failed task.
C2_NoDispatchBeforeDependencies ==
    [][\A i \in Indices :
          (tasks[i].status = PENDING /\ tasks'[i].status = IN_PROGRESS) =>
              \A j \in Indices : DependsOn(i, j) => tasks[j].status \in Terminal]_vars

\* a task with a dependency is running in a concurrent batch
C2_Witness ==
    \E i \in Indices :
        /\ tasks[i].status = IN_PROGRESS
        /\ pc = "gather"
        /\ \E j \in Indices : DependsOn(i, j)

\* C3: when a dependency of a task fails in a run, the failed task's id gets
\* into completed_tasks and the dependent task, its other dependencies being
\* terminal, reaches completed or failed.
C3_FailedDependencyDoesNotFreeze ==
    /\ \A j \in Positions :
          (j \in Indices /\ tasks[j].status = FAILED /\ InThisRun(j))
          ~> (j \in Indices /\ tasks[j].id \in Range(completed_tasks))
    /\ \A i \in Positions :
          (/\ i \in Indices
           /\ DependenciesTerminal(i)
           /\ \E j \in Indices :
                 DependsOn(i, j) /\ tasks[j].status = FAILED /\ InThisRun(j))
          ~> (i \in Indices /\ tasks[i].status \in Terminal)

\* a task with two dependencies, one failed and one completed, has completed
C3_Witness ==
    \E i, j, k \in Indices :
        /\ DependsOn(i, j) /\ DependsOn(i, k)
        /\ tasks[j].status = FAILED /\ tasks[k].status = COMPLETED
        /\ tasks[j].id \in Range(completed_tasks)
        /\ tasks[i].status = COMPLETED

Last(seq) == seq[Len(seq)]

\* C4: a run on a plan with an unknown dependency id or a dependency cycle
\* ends, and every such run ends in the stalled branch with fewer entries in
\* completed_tasks than the plan has tasks.
C4_StructuralProblemStalls ==
    /\ [](StructuralProblem =>
            \A r \in 1..Len(returned) :
                returned[r].stalled /\ Len(returned[r].tasks) < Len(tasks))
    /\ (StructuralProblem /\ pc # "idle") ~> (pc = "idle" /\ returned # <<>> /\ Last(returned).stalled)

\* a run on a plan with a cycle has stalled after some tasks ran
C4_Witness ==
    /\ \E i \in Indices : OnCycle(i)
    /\ returned # <<>>
    /\ returned[1].stalled
    /\ returned[1].tasks # <<>>

\* C5: a task in a terminal status is never passed to execute_task again and
\* none of its fields changes any more, in this run or a later one; no task is
\* passed to execute_task twice.
C5_TerminalTasksAreLeftAlone ==
    [][\A i \in Indices :
          /\ executions'[i] <= 1
          /\ tasks[i].status \in Terminal =>
                /\ tasks'[i] = tasks[i]
                /\ executions'[i] = executions[i]
                /\ saves'[i] = saves[i]]_vars

\* a second run is going on over a plan with a completed and a failed task
C5_Witness ==
    /\ Len(returned) = 1
    /\ pc = "while"
    /\ \E i, j \in Indices : tasks[i].status = COMPLETED /\ tasks[j].status = FAILED

\* C6: a second run on a plan whose tasks the first run brought to a terminal
\* status returns the same sequence of tasks as the first run.
C6_SecondRunReturnsTheSame ==
    \A r \in 2..Len(returned) :
        (/\ \A i \in Indices : tasks[i].status \in Terminal
         /\ Len(returned[1].tasks) = Len(tasks))
        => returned[r].tasks = returned[1].tasks

\* the plan is what C7 is about: known dependency ids, no cycle
WellFormedPlan == ~StructuralProblem

\* the first run has returned every task exactly once, all terminal, normally
FirstRunComplete ==
    /\ returned # <<>>
    /\ ~returned[1].stalled
    /\ Len(returned[1].tasks) = Len(tasks)
    /\ Range(returned[1].tasks) = TaskIds
    /\ \A i \in Indices : tasks[i].status \in Terminal

\* C7: the first run on a plan of pending tasks with known dependency ids and
\* no cycle ends through the normal exit with every task completed or failed
\* and returns every task exactly once, whichever capability calls fail.
C7_WellFormedPlanRunsToCompletion ==
    /\ [](WellFormedPlan /\ returned # <<>> => FirstRunComplete)
    /\ (WellFormedPlan /\ returned = <<>> /\ pc # "idle") ~> FirstRunComplete

\* the first run of a three-task plan is complete with a failed task in it
C7_Witness ==
    /\ WellFormedPlan
    /\ FirstRunComplete
    /\ Len(tasks) >= 3
    /\ \E i, j \in Indices :
          /\ tasks[i].status = FAILED /\ tasks[j].status = COMPLETED
          /\ DependsOn(j, i)

\* the i-th and the j-th task depend on a common task
SameUpstream(i, j) == \E u \in Indices : DependsOn(i, u) /\ DependsOn(j, u)

\* C8: a task whose try block raised is failed with output_data exactly
\* {'error': <the message>}; the run goes on: the tasks of the same batch and
\* the tasks depending on the same upstream task reach a terminal status.
C8_FailureIsIsolated ==
    /\ [](\A i \in Indices :
            /\ tasks[i].status = FAILED <=> error_log[i] # <<>>
            /\ tasks[i].status = FAILED =>
                  /\ Len(error_log[i]) = 1
                  /\ tasks[i].output_data = [error |-> error_log[i][1]])
    /\ \A j \in Positions :
          (/\ j \in Indices
           /\ \E i \in Indices :
                 /\ tasks[i].status = FAILED /\ InThisRun(i)
                 /\ \/ j \in Range(ready_tasks)
                    \/ SameUpstream(i, j) /\ DependenciesTerminal(j))
          ~> (j \in Indices /\ tasks[j].status \in Terminal)

\* a task failed on its capability's exception while a task of the same batch
\* that depends on the same upstream task completed
C8_Witness ==
    \E i, j \in Indices :
        /\ i # j
        /\ SameUpstream(i, j)
        /\ {i, j} \subseteq Range(ready_tasks)
        /\ tasks[i].status = FAILED
        /\ tasks[i].output_data = [error |-> "invalid input"]
        /\ tasks[j].status = COMPLETED

\* C10: a task's status changes only from pending to in_progress and from
\* in_progress to completed or failed.
C10_StatusMovesForward ==
    [][\A i \in Indices :
          \/ tasks'[i].status = tasks[i].status
          \/ tasks[i].status = PENDING /\ tasks'[i].status = IN_PROGRESS
          \/ tasks[i].status = IN_PROGRESS /\ tasks'[i].status \in Terminal]_vars

\* in a second run one task is completed, one failed and one still pending
C10_Witness ==
    /\ returned # <<>>
    /\ pc = "while"
    /\ \E i, j, k \in Indices :
          /\ tasks[i].status = COMPLETED
          /\ tasks[j].status = FAILED
          /\ tasks[k].status = PENDING

-----------------------------------------------------------------------------
(* Further properties of execute_task, checked under Spec *)

\* C11: every task in a terminal status, completed or failed, has tool_used
\* set, to the name of the tool of its type; so has a task whose tool raised.
C11_TerminalTaskHasToolUsed ==
    \A i \in Indices :
        tasks[i].status \in Terminal =>
            /\ tasks[i].tool_used # "None"
            /\ tasks[i].task_type \in RoutedTypes =>
                  tasks[i].tool_used = ToolName(tasks[i].task_type)

-----------------------------------------------------------------------------
(* Further properties of the planning calls, checked under SpecPlanning *)

\* the price create_execution_plan's estimate charges for one task of a type,
\* in cents: the per-call price, three times it for a thumbnail
EstimatedPrice(type) ==
    CASE type = RESEARCH             -> 0
      [] type = SCRIPT_GENERATION    -> 50
      [] type = TTS_GENERATION       -> 10
      [] type = THUMBNAIL_GENERATION -> 72
      [] type = SEO_OPTIMIZATION     -> 10

\* C12: the plan create_execution_plan builds has 17 tasks (4 videos) and its
\* estimated_cost is the sum of the tasks' per-call prices, the thumbnail
\* price taken three times: 0 + 4*50 + 4*10 + 4*72 + 4*10 = 568 cents.
C12_EstimatedCostOfDefaultPlan ==
    stage = "planned" =>
        /\ Len(tasks) = 17
        /\ Videos = 4
        /\ estimated_cost = CountOfType(RESEARCH) * EstimatedPrice(RESEARCH)
                            + Videos * EstimatedPrice(SCRIPT_GENERATION)
                            + Videos * EstimatedPrice(TTS_GENERATION)
                            + Videos * EstimatedPrice(THUMBNAIL_GENERATION)
                            + Videos * EstimatedPrice(SEO_OPTIMIZATION)
        /\ estimated_cost = 568

\* create_execution_plan has built the plan for the goal "Grow tech"
C12_Witness ==
    /\ stage = "planned"
    /\ goal = JoinWords(<<"Grow", "tech">>)
    /\ CountOfType(THUMBNAIL_GENERATION) = 4
    /\ estimated_cost > 0

\* C13: in the list decompose_tasks returns, every id in a task's
\* dependencies is the id of a task of the list.
C13_DependenciesAreClosed ==
    Decomposed =>
        \A i \in Indices :
            \A k \in 1..Len(tasks[i].dependencies) :
                \E j \in Indices : tasks[j].id = tasks[i].dependencies[k]

\* decompose_tasks has returned a list whose last task, an SEO task, names a
\* script task of the list as its dependency
C13_Witness ==
    /\ stage = "decomposed"
    /\ tasks[Len(tasks)].task_type = SEO_OPTIMIZATION
    /\ \E j \in Indices :
          /\ tasks[j].task_type = SCRIPT_GENERATION
          /\ tasks[Len(tasks)].dependencies = <<tasks[j].id>>

-----------------------------------------------------------------------------
(* Further properties of execute_plan, checked under Spec *)

\* the i-th task has a dependency that no task of the plan has as its id or
\* that lies on a dependency cycle
HasBrokenDependency(i) ==
    \/ HasUnknownDependency(i)
    \/ \E j \in Indices : DependsOn(i, j) /\ OnCycle(j)

\* C14: whenever a run ends in the stalled branch, some task of the plan is
\* not terminal and has a dependency that is missing from the plan or lies on
\* a cycle; a run over a plan whose tasks are all terminal does not end there.
C14_StallOnlyOnStructuralProblem ==
    (pc = "idle" /\ returned # <<>> /\ Last(returned).stalled) =>
        \E i \in Indices :
            /\ tasks[i].status \notin Terminal
            /\ HasBrokenDependency(i)

\* the i-th task is pending and each of its dependency ids is in completed_tasks
Eligible(i) ==
    /\ tasks[i].status = PENDING
    /\ \A d \in Deps(i) : d \in Range(completed_tasks)

\* the sequence of task indices is in plan order
InPlanOrder(seq) == \A k, l \in 1..Len(seq) : k < l => seq[k] < seq[l]

\* C15: an iteration dispatches every eligible task, in plan order; as one
\* concurrent batch exactly when one of them is parallel, otherwise one at a
\* time: a task is started only when the tasks before it are terminal.
C15_BatchIsConcurrentIffAnyParallel ==
    /\ [][(pc = "while" /\ pc' \in {"gather", "sequential"}) =>
             /\ Range(ready_tasks') = {i \in Indices : Eligible(i)}
             /\ InPlanOrder(ready_tasks')
             /\ pc' = "gather" <=> \E i \in Indices : Eligible(i) /\ tasks[i].is_parallel
             /\ \A i \in Range(ready_tasks') : co'[i] = "queued"]_vars
    /\ [](pc = "sequential" =>
             /\ \A i \in Range(ready_tasks) : ~tasks[i].is_parallel
             /\ \A k, l \in 1..Len(ready_tasks) :
                   (k < l /\ tasks[ready_tasks[l]].status # PENDING) =>
                       tasks[ready_tasks[k]].status \in Terminal)

\* a task that is not parallel and a parallel task of the same batch are both
\* in progress
C15_Witness ==
    /\ pc = "gather"
    /\ \E i, j \in Range(ready_tasks) :
          /\ ~tasks[i].is_parallel /\ tasks[j].is_parallel
          /\ tasks[i].status = IN_PROGRESS /\ tasks[j].status = IN_PROGRESS

\* C16: iterations do not overlap. A batch is dispatched only when no task is
\* in progress and every task that became terminal in the run is in
\* completed_tasks; a batch is given up only when each of its tasks is
\* terminal, and then their ids are entered into completed_tasks; a task is
\* started only as a task of the current batch.
C16_IterationsDoNotOverlap ==
    [][/\ (ready_tasks = <<>> /\ ready_tasks' # <<>>) =>
            /\ \A i \in Indices : tasks[i].status # IN_PROGRESS /\ co[i] = "idle"
            /\ \A i \in saved_in_run : tasks[i].id \in Range(completed_tasks)
       /\ (ready_tasks # <<>> /\ ready_tasks' # ready_tasks) =>
            /\ ready_tasks' = <<>>
            /\ \A i \in Range(ready_tasks) :
                  /\ tasks[i].status \in Terminal
                  /\ tasks[i].id \in Range(completed_tasks')
       /\ \A i \in Indices :
            (tasks[i].status = PENDING /\ tasks'[i].status # PENDING) =>
                i \in Range(ready_tasks)]_vars

\* while a task of the running batch is still in progress, a pending task
\* outside the batch has all its dependencies terminal, one of them a task of
\* the batch
C16_Witness ==
    /\ pc = "gather"
    /\ \E i \in Range(ready_tasks) : tasks[i].status = IN_PROGRESS
    /\ \E i \in Indices \ Range(ready_tasks) :
          /\ tasks[i].status = PENDING
          /\ DependenciesTerminal(i)
          /\ \E j \in Range(ready_tasks) : DependsOn(i, j)

\* the last run has ended in the stalled branch
LastRunStalled == pc = "idle" /\ returned # <<>> /\ Last(returned).stalled

\* the i-th task has never been in a ready set: it was never passed to
\* execute_task
NeverReady(i) == executions[i] = 0

\* C17: a run that ends in the stalled branch returns exactly the tasks that
\* became completed or failed in that run, each once; every task that was
\* never ready is pending with output_data, tool_used, cost_usd and
\* execution_time_seconds as they were created.
C17_StalledRunReturnsWhatRan ==
    LastRunStalled =>
        /\ Range(Last(returned).tasks) = {tasks[i].id : i \in saved_in_run}
        /\ Len(Last(returned).tasks) = Cardinality(saved_in_run)
        /\ \A i \in saved_in_run : tasks[i].status \in Terminal
        /\ \A i \in Indices :
              NeverReady(i) =>
                  /\ tasks[i].status = PENDING
                  /\ tasks[i].output_data = PyNone
                  /\ tasks[i].tool_used = "None"
                  /\ tasks[i].cost_usd = 0
                  /\ tasks[i].execution_time_seconds = 0

\* a first run has stalled after it completed one task and failed another,
\* with a third task never ready
C17_Witness ==
    /\ LastRunStalled
    /\ Len(returned) = 1
    /\ \E i, j, k \in Indices :
          /\ tasks[i].status = COMPLETED /\ tasks[i].id \in Range(returned[1].tasks)
          /\ tasks[j].status = FAILED /\ tasks[j].id \in Range(returned[1].tasks)
          /\ NeverReady(k) /\ tasks[k].id \notin Range(returned[1].tasks)

\* C18: in every state of a run a task's output_data is None exactly while
\* the task is pending or in progress; a completed task holds the result
\* mapping of its tool and a failed task an error payload.
C18_OutputDataFollowsStatus ==
    \A i \in Indices :
        /\ tasks[i].status \in {PENDING, IN_PROGRESS} <=> tasks[i].output_data = PyNone
        /\ tasks[i].status = COMPLETED =>
              DOMAIN tasks[i].output_data = {"result_of"}
        /\ tasks[i].status = FAILED =>
              DOMAIN tasks[i].output_data = {"error"}

\* a batch has a task in progress without output_data beside a completed and
\* a failed task that have theirs
C18_Witness ==
    /\ pc = "gather"
    /\ \E i, j, k \in Range(ready_tasks) :
          /\ tasks[i].status = IN_PROGRESS /\ tasks[i].output_data = PyNone
          /\ tasks[j].status = COMPLETED /\ tasks[j].output_data # PyNone
          /\ tasks[k].status = FAILED /\ tasks[k].output_data # PyNone

\* a task with the five fields status, output_data, tool_used, cost_usd and
\* execution_time_seconds blanked
WithoutResultFields(t) ==
    [t EXCEPT !.status = PENDING,
              !.output_data = PyNone,
              !.tool_used = "None",
              !.cost_usd = 0,
              !.execution_time_seconds = 0]

\* C19 as stated: no step of execute_plan and execute_task changes a field of
\* a task other than status, output_data, tool_used, cost_usd and
\* execution_time_seconds, nor the number of tasks.
C19_OnlyResultFieldsChange ==
    [][/\ Len(tasks') = Len(tasks)
       /\ \A i \in Indices :
             WithoutResultFields(tasks'[i]) = WithoutResultFields(tasks[i])]_vars

\* C19 amended: no step changes a field of a task other than status,
\* output_data, tool_used, cost_usd, execution_time_seconds and completed_at:
\* id, project_id, task_type, input_data, dependencies, is_parallel and
\* created_at stay as they are.
C19_OnlyResultFieldsAndCompletedAtChange ==
    [][/\ Len(tasks') = Len(tasks)
       /\ \A i \in Indices :
             [WithoutResultFields(tasks'[i]) EXCEPT !.completed_at = "None"]
                 = [WithoutResultFields(tasks[i]) EXCEPT !.completed_at = "None"]]_vars

\* a run has ended with a completed and a failed task, both with completed_at
\* set and their dependencies as planned
C19_Witness ==
    /\ pc = "idle"
    /\ returned # <<>>
    /\ \E i, j \in Indices :
          /\ tasks[i].status = COMPLETED /\ tasks[i].completed_at = "set"
          /\ tasks[j].status = FAILED /\ tasks[j].completed_at = "set"
          /\ tasks[i].dependencies = <<tasks[j].id>>

\* C20: _save_task is called for a task in the step that makes it completed
\* or failed, with that status, on either path, and never otherwise: a task
\* that is pending or in progress has no save, a terminal task exactly one;
\* when the next ready set is computed every task dispatched in the run has
\* been saved and entered into completed_tasks.
C20_SavedOnceWhenTerminal ==
    /\ [](\A i \in Indices :
            IF tasks[i].status \in Terminal
            THEN saves[i] = <<tasks[i].status>>
            ELSE saves[i] = <<>>)
    /\ [](pc = "while" =>
            /\ \A i \in Indices : tasks[i].status # IN_PROGRESS
            /\ saved_in_run = {i \in Indices : tasks[i].id \in Range(completed_tasks)})
    /\ [][\A i \in Indices :
            saves'[i] # saves[i] =>
                /\ tasks[i].status = IN_PROGRESS
                /\ tasks'[i].status \in Terminal
                /\ i \in Range(ready_tasks)]_vars

\* in the first run the next ready set is about to be computed after a batch
\* in which one task completed and one failed, each saved once
C20_Witness ==
    /\ pc = "while"
    /\ returned = <<>>
    /\ \E i, j \in saved_in_run :
          /\ saves[i] = <<COMPLETED>>
          /\ saves[j] = <<FAILED>>
    /\ \E k \in Indices : tasks[k].status = PENDING

-----------------------------------------------------------------------------
(* Properties of a run over a created plan, checked under SpecRun *)

\* a run of execute_plan over the plan create_execution_plan built has ended
AfterRun == stage = "planned" /\ pc = "idle" /\ returned # <<>>

\* the sum of the tasks' cost_usd, in cents
RECURSIVE IncurredCost(_)
IncurredCost(ts) ==
    IF ts = <<>> THEN 0 ELSE ts[1].cost_usd + IncurredCost(Tail(ts))

\* C21 as stated: after a run over a created plan the sum of the tasks'
\* cost_usd is at most estimated_cost, and equal to it exactly when every
\* task completed; a failed task has cost 0.
C21_IncurredCostWithinEstimate ==
    AfterRun =>
        /\ IncurredCost(tasks) <= estimated_cost
        /\ IncurredCost(tasks) = estimated_cost
              <=> \A i \in Indices : tasks[i].status = COMPLETED
        /\ \A i \in Indices : tasks[i].status = FAILED => tasks[i].cost_usd = 0

\* C21 amended: after a run over a created plan the sum of the tasks'
\* cost_usd is at most estimated_cost, and equal to it exactly when every
\* task whose estimated price is not zero completed; a failed task has cost 0
\* and a completed task the price the estimate charges for it.
C21_IncurredCostWithinEstimateOfPricedTasks ==
    AfterRun =>
        /\ IncurredCost(tasks) <= estimated_cost
        /\ IncurredCost(tasks) = estimated_cost
              <=> \A i \in Indices :
                     EstimatedPrice(tasks[i].task_type) > 0 =>
                         tasks[i].status = COMPLETED
        /\ \A i \in Indices :
              /\ tasks[i].status = FAILED => tasks[i].cost_usd = 0
              /\ tasks[i].status = COMPLETED =>
                    tasks[i].cost_usd = EstimatedPrice(tasks[i].task_type)

\* a run has ended in which a thumbnail task and the research task failed and
\* the incurred cost is the estimate less the price of three thumbnails
C21_Witness ==
    /\ AfterRun
    /\ tasks[1].status = FAILED
    /\ \E i \in Indices :
          tasks[i].task_type = THUMBNAIL_GENERATION /\ tasks[i].status = FAILED
    /\ IncurredCost(tasks) = estimated_cost - 72

\* the positions of the plan's tasks of the given types
OfTypes(types) == {i \in Indices : tasks[i].task_type \in types}

\* the ids of the tasks at the given positions
IdsOf(S) == {tasks[i].id : i \in S}

\* the task types built per video on top of the script
PerScriptTypes == {TTS_GENERATION, THUMBNAIL_GENERATION, SEO_OPTIMIZATION}

C23_ToolUsedIsToolMapped ==
    stage = "planned" =>
        /\ DOMAIN tool_mapping = TaskIds
        /\ \A i \in Indices :
              tasks[i].status = COMPLETED =>
                  tasks[i].tool_used = tool_mapping[tasks[i].id]

\* a run over a created plan has ended with a completed task of every type
\* that has a tool, each with the tool the plan mapped it to
C23_Witness ==
    /\ AfterRun
    /\ \A type \in RoutedTypes :
          \E i \in OfTypes({type}) :
              /\ tasks[i].status = COMPLETED
              /\ tasks[i].tool_used = tool_mapping[tasks[i].id]
              /\ tasks[i].tool_used # "None"

====
